---- MODULE Spec2Model ----
(***************************************************************************)
(* A model of flight_tracker.py: the FlightFetcher (position fetch, route  *)
(* lookup with its callsign cache), the part of FlightDisplay.draw that    *)
(* can raise or issue a request, and the FlightTrackerApp.run loop.        *)
(*                                                                         *)
(* JSON values are tagged records: Null, Num(n), Str(chars), List(seq),    *)
(* Obj(function).  A string is the sequence of its characters, so that     *)
(* str.strip() is computed and not assumed.  Python's None is Null.        *)
(***************************************************************************)
EXTENDS Integers, Sequences, FiniteSets, TLC

VARIABLES
    callsign_cache,   \* FlightFetcher.callsign_cache: callsign -> <<airline, origin, dest>>
    routeRequests,    \* transport call count of route lookups, per callsign
    lastCall,         \* the last direct FlightFetcher call: method, argument, response, outcome
    ret,              \* what that call returned
    pc,               \* position of FlightTrackerApp.run
    clock,            \* time.time()
    idx,              \* FlightTrackerApp.idx
    last_switch,      \* FlightTrackerApp.last_switch
    now,              \* run's local `now`
    aircraft,         \* run's local `aircraft`
    enriched_aircraft,\* run's local `enriched_aircraft`
    log,              \* the last sleep and the requests issued since, in order
    drawCalls,        \* invocations of renderer.draw in the current iteration
    shown,            \* what display.show() put on the panel in the current iteration
    posRequests,      \* transport call count of position fetches
    lastArea          \* index of the area of the last position fetch, -1 before the first

vars == <<callsign_cache, routeRequests, lastCall, ret, pc, clock, idx, last_switch,
          now, aircraft, enriched_aircraft, log, drawCalls, shown, posRequests, lastArea>>

fetcherVars == <<callsign_cache, routeRequests, lastCall, ret>>
loopVars == <<pc, clock, idx, last_switch, now, aircraft, enriched_aircraft, log,
              drawCalls, shown, posRequests, lastArea>>

-----------------------------------------------------------------------------
(* JSON values and the Python operations the code applies to them. *)

Null == [t |-> "null"]
Num(n) == [t |-> "num", v |-> n]
Str(s) == [t |-> "str", v |-> s]
List(s) == [t |-> "list", v |-> s]
Obj(f) == [t |-> "obj", v |-> f]

EmptyObj == Obj(<<>>)
EmptyList == List(<<>>)

IsObj(x) == x.t = "obj"
IsStr(x) == x.t = "str"

\* dict.get(key, default); the caller checks IsObj first (AttributeError otherwise)
Get(o, k, d) == IF k \in DOMAIN o.v THEN o.v[k] ELSE d

\* Python truthiness of a JSON value
Truthy(x) ==
    CASE x.t = "null" -> FALSE
      [] x.t = "num" -> x.v # 0
      [] x.t = "str" -> x.v # <<>>
      [] x.t = "list" -> x.v # <<>>
      [] x.t = "obj" -> DOMAIN x.v # {}

\* the whitespace that occurs in the inputs
Whitespace == {" "}

RECURSIVE LStrip(_)
LStrip(s) == IF s # <<>> /\ Head(s) \in Whitespace THEN LStrip(Tail(s)) ELSE s

RECURSIVE RStrip(_)
RStrip(s) ==
    IF s # <<>> /\ s[Len(s)] \in Whitespace THEN RStrip(SubSeq(s, 1, Len(s) - 1)) ELSE s

\* str.strip()
Strip(s) == RStrip(LStrip(s))

Digits == {"0", "1", "2", "3", "4", "5", "6", "7", "8", "9"}

\* int(x) raises ValueError or TypeError unless x is a number or a string of
\* digits (the signs and underscores int() also accepts occur in no input)
IntRaises(x) ==
    CASE x.t = "num" -> FALSE
      [] x.t = "str" -> LET s == Strip(x.v) IN s = <<>> \/ \E i \in 1..Len(s) : s[i] \notin Digits
      [] OTHER -> TRUE

First(s, n) == SubSeq(s, 1, IF Len(s) < n THEN Len(s) ELSE n)

-----------------------------------------------------------------------------
(* Program constants. *)

NA == Str(<<"N/A">>)
Sentinel == <<NA, NA, NA>>

MAX_AIRCRAFT == 20
switch_interval == 300
SLEEP_SECONDS == 10

LOCATIONS == <<"Austin", "Dallas/Fort Worth", "Houston">>

AIRLINE_LOGO_DOMAINS ==
    {<<"American Airlines">>, <<"Delta Air Lines">>, <<"United Airlines">>,
     <<"Southwest Airlines">>, <<"Alaska Airlines">>}

-----------------------------------------------------------------------------
(* What requests.get can come back with: a transport error (timeout,       *)
(* connection failure), or a response with a status code and a body that   *)
(* is or is not JSON.                                                      *)

TransportError == [err |-> TRUE, code |-> 0, parses |-> FALSE, body |-> Null]
Http(code, body) == [err |-> FALSE, code |-> code, parses |-> TRUE, body |-> body]
NotJson(code) == [err |-> FALSE, code |-> code, parses |-> FALSE, body |-> Null]

\* requests.get raised, raise_for_status raised, or resp.json() raised
ResponseRaises(resp) == resp.err \/ resp.code >= 400 \/ ~resp.parses

-----------------------------------------------------------------------------
(* FlightFetcher *)

\* A variant that returns the whole upstream list
fetch_aircraft_untruncated(resp) ==
    IF ResponseRaises(resp) \/ ~IsObj(resp.body) THEN EmptyList
    ELSE LET ac == Get(resp.body, "ac", EmptyList) IN
         CASE ac.t = "list" -> ac
           [] ac.t = "str" -> ac
           [] OTHER -> EmptyList

\* fetch_aircraft: resp.json().get("ac", [])[:MAX_AIRCRAFT] inside try/except Exception.
\* A list and a string can both be sliced; null, a number and an object cannot,
\* and .get on a body that is no object raises: those end in the except clause.
fetch_aircraft(resp) ==
    IF ResponseRaises(resp) \/ ~IsObj(resp.body) THEN EmptyList
    ELSE LET ac == Get(resp.body, "ac", EmptyList) IN
         CASE ac.t = "list" -> List(First(ac.v, MAX_AIRCRAFT))
           [] ac.t = "str" -> Str(First(ac.v, MAX_AIRCRAFT))
           [] OTHER -> EmptyList

\* fr.get(key, {}).get("name", "N/A"): raises when the value under key is no object
NameOf(fr, key) ==
    LET o == Get(fr, key, EmptyObj) IN
    IF IsObj(o) THEN [exc |-> FALSE, val |-> Get(o, "name", NA)]
    ELSE [exc |-> TRUE, val |-> NA]

\* The try block of fetch_route_info: the triple it computes, or that it raised
ParseRoute(resp) ==
    IF ResponseRaises(resp) \/ ~IsObj(resp.body) THEN [exc |-> TRUE, val |-> Sentinel]
    ELSE LET r == Get(resp.body, "response", EmptyObj) IN
         IF ~IsObj(r) THEN [exc |-> TRUE, val |-> Sentinel]
         ELSE LET fr == Get(r, "flightroute", EmptyObj) IN
              IF ~IsObj(fr) THEN [exc |-> TRUE, val |-> Sentinel]
              ELSE LET airline == NameOf(fr, "airline")
                       origin == NameOf(fr, "origin")
                       dest == NameOf(fr, "destination")
                   IN IF airline.exc \/ origin.exc \/ dest.exc
                      THEN [exc |-> TRUE, val |-> Sentinel]
                      ELSE [exc |-> FALSE, val |-> <<airline.val, origin.val, dest.val>>]

\* self.callsign_cache[callsign] = value
CachePut(cache, callsign, value) ==
    [k \in DOMAIN cache \cup {callsign} |-> IF k = callsign THEN value ELSE cache[k]]

\* A variant that does not remember a lookup that raised
fetch_route_info_forgets_failure(cache, callsign, resp) ==
    IF callsign \in DOMAIN cache
    THEN [cache |-> cache, ret |-> cache[callsign], requested |-> FALSE]
    ELSE IF callsign = <<>>
    THEN [cache |-> CachePut(cache, callsign, Sentinel), ret |-> Sentinel, requested |-> FALSE]
    ELSE LET parsed == ParseRoute(resp) IN
         [cache |-> IF parsed.exc THEN cache ELSE CachePut(cache, callsign, parsed.val),
          ret |-> parsed.val, requested |-> TRUE]

\* A variant that looks a non-empty callsign up again on every call
fetch_route_info_refetches(cache, callsign, resp) ==
    IF callsign = <<>>
    THEN [cache |-> CachePut(cache, callsign, Sentinel), ret |-> Sentinel, requested |-> FALSE]
    ELSE LET parsed == ParseRoute(resp) IN
         [cache |-> CachePut(cache, callsign, parsed.val),
          ret |-> parsed.val, requested |-> TRUE]

\* fetch_route_info(callsign), given the response the transport would produce:
\* the cache afterwards, the returned triple, and whether a request was issued
fetch_route_info(cache, callsign, resp) ==
    IF callsign \in DOMAIN cache
    THEN [cache |-> cache, ret |-> cache[callsign], requested |-> FALSE]
    ELSE IF callsign = <<>>
    THEN [cache |-> CachePut(cache, callsign, Sentinel), ret |-> Sentinel, requested |-> FALSE]
    ELSE LET parsed == ParseRoute(resp) IN
         [cache |-> CachePut(cache, callsign, parsed.val),
          ret |-> parsed.val, requested |-> TRUE]

-----------------------------------------------------------------------------
(* The inputs: callsigns, route-lookup responses, aircraft records and     *)
(* position responses.                                                     *)

CsEmpty == <<>>
CsA == <<"A", "1">>
CsB == <<"B", "2">>
Callsigns == {CsEmpty, CsA, CsB}

American == Str(<<"American Airlines">>)
Regional == Str(<<"Lone Star Air">>)
Austin == Str(<<"Austin Bergstrom">>)
Dallas == Str(<<"Dallas Fort Worth">>)
Houston == Str(<<"Houston Hobby">>)

Named(n) == Obj([name |-> n])
RouteBody(fr) == Obj([response |-> Obj([flightroute |-> fr])])

\* every field present
RouteFull == Http(200, RouteBody(Obj([airline |-> Named(American), origin |-> Named(Austin),
                                      destination |-> Named(Dallas)])))
\* an airline without a logo domain
RouteRegional == Http(200, RouteBody(Obj([airline |-> Named(Regional), origin |-> Named(Houston),
                                          destination |-> Named(Austin)])))
\* the airline key is absent
RouteNoAirline == Http(200, RouteBody(Obj([origin |-> Named(Austin),
                                           destination |-> Named(Dallas)])))
\* the airline object is null
RouteNullAirline == Http(200, RouteBody(Obj([airline |-> Null, origin |-> Named(Austin),
                                             destination |-> Named(Dallas)])))
\* the airline has no name
RouteUnnamedAirline == Http(200, RouteBody(Obj([airline |-> EmptyObj, origin |-> Named(Austin),
                                                destination |-> Named(Dallas)])))
\* the airline's name is null
RouteNullName == Http(200, RouteBody(Obj([airline |-> Named(Null), origin |-> Named(Austin),
                                          destination |-> Named(Dallas)])))
\* only the airline is present
RouteAirlineOnly == Http(200, RouteBody(Obj([airline |-> Named(American)])))
\* no flightroute at all
RouteNoFlightroute == Http(200, Obj([response |-> EmptyObj]))
\* the body the lookup service sends with a 404
RouteUnknown == Http(404, Obj([response |-> Str(<<"unknown callsign">>)]))
\* a 200 whose "response" is a string, a 200 whose body is a list, a 200 that is no JSON
RouteStringResponse == Http(200, Obj([response |-> Str(<<"unknown callsign">>)]))
RouteListBody == Http(200, EmptyList)

RouteResponses ==
    {RouteFull, RouteRegional, RouteNoAirline, RouteNullAirline, RouteUnnamedAirline,
     RouteNullName, RouteAirlineOnly, RouteNoFlightroute, RouteUnknown, RouteStringResponse,
     RouteListBody, NotJson(200), TransportError}

\* the responses the run loop is checked with
LoopRouteResponses == {RouteFull, RouteRegional, TransportError}

Flight(s) == Str(s)

AcA == Obj([flight |-> Flight(<<"A", "1", " ", " ">>), alt_baro |-> Num(35000), gs |-> Num(450),
            lat |-> Num(30), lon |-> Num(-97)])
AcB == Obj([flight |-> Flight(<<"B", "2">>), alt_baro |-> Str(<<"ground">>), gs |-> Null])
AcNoFlight == Obj([alt_baro |-> Num(1200), gs |-> Num(90)])
AcBlank == Obj([flight |-> Flight(<<" ", " ">>), gs |-> Num(90)])
AcBadSpeed == Obj([flight |-> Flight(<<"B", "2", " ">>), gs |-> Str(<<"f", "a", "s", "t">>)])
AcBadCoords == Obj([flight |-> Flight(<<"A", "1">>), gs |-> Str(<<"4", "5", "0">>),
                    lat |-> Str(<<"n", "o", "r", "t", "h">>), lon |-> Num(-97)])
AcNumberFlight == Obj([flight |-> Num(7)])
AcNotObject == Num(42)

Records == {AcA, AcB, AcNoFlight, AcBlank, AcBadSpeed, AcBadCoords, AcNumberFlight, AcNotObject}

\* how many records past MAX_AIRCRAFT the longest upstream list holds
MaxExtra == 2
LongLengths == (MAX_AIRCRAFT - 1)..(MAX_AIRCRAFT + MaxExtra)

DigitChars == <<"0", "1", "2", "3", "4", "5", "6", "7", "8", "9">>
NumberedCallsign(i) == <<"F", DigitChars[(i \div 10) + 1], DigitChars[(i % 10) + 1]>>
AcNumbered(i) == Obj([flight |-> Flight(NumberedCallsign(i)), gs |-> Num(400 + i)])

\* upstream lists around the MAX_AIRCRAFT limit: n records without a callsign
\* with the record at position p replaced by AcB, and n records with n callsigns
LongLists ==
    {[i \in 1..n |-> IF i = p THEN AcB ELSE AcNoFlight] :
        n \in LongLengths, p \in {MAX_AIRCRAFT, MAX_AIRCRAFT + 1}}
    \cup {[i \in 1..n |-> AcNumbered(i)] : n \in LongLengths}

ShortLists == {<<>>} \cup {<<r>> : r \in Records} \cup {<<r, q>> : r, q \in Records}

PosBody(ac) == Http(200, Obj([ac |-> ac, total |-> Num(1)]))

PositionResponses ==
    {PosBody(List(l)) : l \in ShortLists \cup LongLists}
    \cup {PosBody(Str(<<"o", "f", "f">>)), PosBody(Str(<<>>)), PosBody(Null), PosBody(Num(3)),
          PosBody(Obj([n |-> Num(0)])), Http(200, Obj([total |-> Num(0)])),
          Http(200, EmptyList), Http(503, Obj([ac |-> List(<<AcA>>)])), NotJson(200),
          TransportError}

-----------------------------------------------------------------------------
(* State after FlightTrackerApp.__init__ *)

NoCall == [op |-> "none", callsign |-> CsEmpty, resp |-> TransportError, requested |-> FALSE]

Init ==
    /\ callsign_cache = <<>>
    /\ routeRequests = <<>>
    /\ lastCall = NoCall
    /\ ret = EmptyList
    /\ pc = "start"
    /\ clock = 0
    /\ idx = 0
    /\ last_switch = 0
    /\ now = 0
    /\ aircraft = EmptyList
    /\ enriched_aircraft = <<>>
    /\ log = <<>>
    /\ drawCalls = 0
    /\ shown = <<>>
    /\ posRequests = 0
    /\ lastArea = -1

\* route lookups issued so far for a callsign
Requests(counts, c) == IF c \in DOMAIN counts THEN counts[c] ELSE 0

\* one more route lookup issued for c
CountRequest(counts, c) ==
    [k \in DOMAIN counts \cup {c} |-> IF k = c THEN Requests(counts, c) + 1 ELSE counts[k]]

-----------------------------------------------------------------------------
(* Calls on one FlightFetcher instance, in any order *)

\* most lookups the model lets one callsign accumulate
MaxRequests == 3

CallFetchRouteInfo ==
    \E c \in Callsigns, resp \in RouteResponses :
        LET r == fetch_route_info(callsign_cache, c, resp) IN
        /\ Requests(routeRequests, c) < MaxRequests
        /\ callsign_cache' = r.cache
        /\ ret' = r.ret
        /\ routeRequests' = IF r.requested THEN CountRequest(routeRequests, c) ELSE routeRequests
        /\ lastCall' = [op |-> "fetch_route_info", callsign |-> c, resp |-> resp,
                        requested |-> r.requested]
        /\ UNCHANGED loopVars

CallFetchAircraft ==
    \E resp \in PositionResponses :
        /\ ret' = fetch_aircraft(resp)
        /\ lastCall' = [op |-> "fetch_aircraft", callsign |-> CsEmpty, resp |-> resp,
                        requested |-> TRUE]
        /\ UNCHANGED <<callsign_cache, routeRequests>>
        /\ UNCHANGED loopVars

FetcherNext == CallFetchRouteInfo \/ CallFetchAircraft

SpecFetcher == Init /\ [][FetcherNext]_vars

-----------------------------------------------------------------------------
(* FlightDisplay.draw, as far as it can raise, issue a request or show *)

\* fetch_logo(airline), called at the end of draw: AIRLINE_LOGO_DOMAINS.get raises
\* on an unhashable key; a request is issued only for an airline of the table;
\* a request that fails or an image that does not decode gives no logo
fetch_logo(airline, resp) ==
    IF airline.t \in {"list", "obj"} THEN [exc |-> TRUE, requested |-> FALSE, logo |-> FALSE]
    ELSE IF ~(IsStr(airline) /\ airline.v \in AIRLINE_LOGO_DOMAINS)
    THEN [exc |-> FALSE, requested |-> FALSE, logo |-> FALSE]
    ELSE [exc |-> FALSE, requested |-> TRUE, logo |-> ~ResponseRaises(resp)]

\* the statements of draw before fetch_logo that can raise: .strip() on the
\* flight, int(gs or 0), and haversine on truthy coordinates
DrawRaisesBeforeLogo(ac) ==
    LET flight == Get(ac, "flight", NA)
        gs == Get(ac, "gs", Null)
        lat == Get(ac, "lat", Null)
        lon == Get(ac, "lon", Null)
    IN \/ ~IsStr(flight)
       \/ Truthy(gs) /\ IntRaises(gs)
       \/ Truthy(lat) /\ Truthy(lon) /\ (lat.t # "num" \/ lon.t # "num")

\* draw(aircraft, ...): renders aircraft[0] only
draw(list, logoResp) ==
    LET ac == list[1] IN
    IF DrawRaisesBeforeLogo(ac) THEN [exc |-> TRUE, requested |-> FALSE, shown |-> <<>>]
    ELSE LET l == fetch_logo(Get(ac, "airline_name", NA), logoResp) IN
         [exc |-> l.exc, requested |-> l.requested,
          shown |-> IF l.exc THEN <<>> ELSE <<[ac |-> ac, logo |-> l.logo]>>]

-----------------------------------------------------------------------------
(* FlightTrackerApp.run *)

\* A variant of the timed rotation that needs more than switch_interval to pass
TimedSwitch_strict(i, ls, n) ==
    IF n - ls > switch_interval
    THEN [idx |-> (i + 1) % Len(LOCATIONS), last_switch |-> n]
    ELSE [idx |-> i, last_switch |-> ls]

\* the timed rotation at the top of an iteration
TimedSwitch(i, ls, n) ==
    IF n - ls >= switch_interval
    THEN [idx |-> (i + 1) % Len(LOCATIONS), last_switch |-> n]
    ELSE [idx |-> i, last_switch |-> ls]

\* what `for ac in aircraft` iterates over: the records of a list, the
\* characters of a string
Items(a) == IF a.t = "list" THEN a.v ELSE [i \in 1..Len(a.v) |-> Str(<<a.v[i]>>)]

\* (ac.get("flight") or "").strip(): raises when ac is no object, and when the
\* flight is truthy and no string
CallsignOf(ac) ==
    IF ~IsObj(ac) THEN [exc |-> TRUE, val |-> CsEmpty]
    ELSE LET f == Get(ac, "flight", Null)
             g == IF Truthy(f) THEN f ELSE Str(<<>>)
         IN IF IsStr(g) THEN [exc |-> FALSE, val |-> Strip(g.v)]
            ELSE [exc |-> TRUE, val |-> CsEmpty]

\* ac.update({...})
Update(ac, triple) ==
    Obj([k \in DOMAIN ac.v \cup {"airline_name", "origin_name", "destination_name"} |->
            CASE k = "airline_name" -> triple[1]
              [] k = "origin_name" -> triple[2]
              [] k = "destination_name" -> triple[3]
              [] OTHER -> ac.v[k]])

\* the response the transport gives to a lookup of callsign c
RouteOf(oracle, c) ==
    IF c = CsA THEN oracle.a ELSE IF c = CsB THEN oracle.b ELSE oracle.other

\* the body of the for loop for one record
EnrichOne(st, ac, oracle) ==
    LET cs == CallsignOf(ac) IN
    IF cs.exc THEN [st EXCEPT !.exc = TRUE]
    ELSE LET r == fetch_route_info(st.cache, cs.val, RouteOf(oracle, cs.val)) IN
         [cache |-> r.cache,
          counts |-> IF r.requested THEN CountRequest(st.counts, cs.val) ELSE st.counts,
          requests |-> IF r.requested THEN st.requests + 1 ELSE st.requests,
          enriched |-> IF r.ret[1] # NA THEN Append(st.enriched, Update(ac, r.ret))
                       ELSE st.enriched,
          exc |-> FALSE]

\* the for loop from record i on; it stops at the first record that raises
RECURSIVE EnrichFrom(_, _, _, _)
EnrichFrom(items, i, st, oracle) ==
    IF i > Len(items) \/ st.exc THEN st
    ELSE EnrichFrom(items, i + 1, EnrichOne(st, items[i], oracle), oracle)

Repeat(x, n) == [i \in 1..n |-> x]

\* the inputs of the loop
LoopLists ==
    {<<>>, <<AcA>>, <<AcB>>, <<AcBadSpeed>>, <<AcBadCoords>>, <<AcNumberFlight>>,
     <<AcNotObject>>, <<AcBlank, AcB>>, <<AcB, AcA>>, <<AcA, AcNotObject>>}
    \cup {[i \in 1..(MAX_AIRCRAFT + MaxExtra) |-> IF i = p THEN AcB ELSE AcNoFlight] :
            p \in {MAX_AIRCRAFT, MAX_AIRCRAFT + 1}}
    \cup {[i \in 1..(MAX_AIRCRAFT + MaxExtra) |-> AcNumbered(i)]}

LoopPositionResponses ==
    {PosBody(List(l)) : l \in LoopLists} \cup {PosBody(Str(<<"o", "f", "f">>)), TransportError}

\* numbered callsigns resolve to an airline without a logo domain
RouteOracles == [a : LoopRouteResponses, b : LoopRouteResponses, other : {RouteRegional}]

LogoResponses == {Http(200, Null), TransportError}

\* seconds the requests of one iteration can take
NetworkDelays == {0, 280, 290}

\* most position fetches the model follows the loop for
MaxFetches == 3

\* lines 221-227: read the clock, rotate on the timer, fetch the current area
StartIteration ==
    /\ pc = "start"
    /\ posRequests < MaxFetches
    /\ \E resp \in LoopPositionResponses :
        LET sw == TimedSwitch(idx, last_switch, clock) IN
        /\ now' = clock
        /\ idx' = sw.idx
        /\ last_switch' = sw.last_switch
        /\ aircraft' = fetch_aircraft(resp)
        /\ lastArea' = sw.idx
    /\ posRequests' = posRequests + 1
    /\ log' = Append(log, "position")
    /\ pc' = "enrich"
    /\ UNCHANGED <<enriched_aircraft, drawCalls, shown, clock>>
    /\ UNCHANGED fetcherVars

\* lines 229-239: resolve every fetched record, keep those with an airline
Enrich ==
    /\ pc = "enrich"
    /\ \E oracle \in RouteOracles :
        LET st == EnrichFrom(Items(aircraft), 1,
                             [cache |-> callsign_cache, counts |-> routeRequests,
                              requests |-> 0, enriched |-> <<>>, exc |-> FALSE], oracle)
        IN /\ callsign_cache' = st.cache
           /\ routeRequests' = st.counts
           /\ enriched_aircraft' = st.enriched
           /\ log' = log \o Repeat("route", st.requests)
           /\ pc' = IF st.exc THEN "crashed" ELSE "decide"
    /\ UNCHANGED <<lastCall, ret, clock, idx, last_switch, now, aircraft, drawCalls, shown,
                   posRequests, lastArea>>

\* lines 241-242: render the kept list
Render ==
    /\ pc = "decide"
    /\ enriched_aircraft # <<>>
    /\ \E logoResp \in LogoResponses :
        LET d == draw(enriched_aircraft, logoResp) IN
        /\ drawCalls' = drawCalls + 1
        /\ shown' = d.shown
        /\ log' = IF d.requested THEN Append(log, "logo") ELSE log
        /\ pc' = IF d.exc THEN "crashed" ELSE "sleep"
    /\ UNCHANGED <<callsign_cache, routeRequests, lastCall, ret, clock, idx, last_switch, now,
                   aircraft, enriched_aircraft, posRequests, lastArea>>

\* A variant of the else branch that leaves the rotation timer alone
SkipArea_keeps_timer(i, ls, n) == [idx |-> (i + 1) % Len(LOCATIONS), last_switch |-> ls]

\* the else branch, lines 243-246
SkipArea(i, ls, n) == [idx |-> (i + 1) % Len(LOCATIONS), last_switch |-> n]

Skip ==
    /\ pc = "decide"
    /\ enriched_aircraft = <<>>
    /\ idx' = SkipArea(idx, last_switch, now).idx
    /\ last_switch' = SkipArea(idx, last_switch, now).last_switch
    /\ pc' = "sleep"
    /\ UNCHANGED <<callsign_cache, routeRequests, lastCall, ret, clock, now, aircraft,
                   enriched_aircraft, log, drawCalls, shown, posRequests, lastArea>>

\* line 248, the end of the iteration.  The clock is next read at the top of the
\* loop, so the time the iteration's requests took is added here, with the
\* sleep.  The iteration's locals are dead from here on; log restarts at this
\* sleep, and drawCalls and shown at the next iteration.
Sleep ==
    /\ pc = "sleep"
    /\ \E d \in NetworkDelays : clock' = clock + d + SLEEP_SECONDS
    /\ log' = <<"sleep">>
    /\ aircraft' = EmptyList
    /\ enriched_aircraft' = <<>>
    /\ drawCalls' = 0
    /\ shown' = <<>>
    /\ pc' = "start"
    /\ UNCHANGED <<callsign_cache, routeRequests, lastCall, ret, idx, last_switch, now,
                   posRequests, lastArea>>

Next == StartIteration \/ Enrich \/ Render \/ Skip \/ Sleep

Spec == Init /\ [][Next]_vars

-----------------------------------------------------------------------------
(* Properties of the FlightFetcher, checked under SpecFetcher *)

FullTriple == <<American, Austin, Dallas>>

\* C1: on one FlightFetcher, at most one route-lookup request is ever issued for
\* a callsign, whatever the first request came back with, and none is ever issued
\* for the empty callsign.
AtMostOneLookupPerCallsign ==
    /\ \A c \in DOMAIN routeRequests : routeRequests[c] <= 1
    /\ Requests(routeRequests, CsEmpty) = 0

\* C1 witness: the first lookup of A1 failed, and a later call for A1, whose
\* request would have succeeded, was answered from the cache without a request.
RepeatedCallAfterFailure ==
    /\ lastCall.op = "fetch_route_info"
    /\ lastCall.callsign = CsA
    /\ lastCall.resp = RouteFull
    /\ ~lastCall.requested
    /\ Requests(routeRequests, CsA) = 1
    /\ callsign_cache[CsA] = Sentinel

\* the list the claim promises from fetch_aircraft for a response
ClaimedAircraft(resp) ==
    IF /\ ~ResponseRaises(resp)
       /\ IsObj(resp.body)
       /\ "ac" \in DOMAIN resp.body.v
       /\ resp.body.v["ac"].t = "list"
    THEN List(First(resp.body.v["ac"].v, MAX_AIRCRAFT))
    ELSE EmptyList

\* C5: fetch_aircraft always returns a list: the first min(n, 20) records of a
\* successful response's aircraft list, in upstream order, and the empty list on
\* a transport error, a non-success status or a malformed payload.
FetchAircraftReturnsList ==
    lastCall.op = "fetch_aircraft" => ret = ClaimedAircraft(lastCall.resp)

\* C6: the callsign cache only grows: no key is removed and no cached value is
\* overwritten, every call returns what the cache holds for its callsign (so
\* what the first call returned), a lookup that failed is cached as the
\* all-"N/A" sentinel, and the empty callsign maps to the sentinel.
CacheOnlyGrows ==
    /\ [][\A k \in DOMAIN callsign_cache :
            k \in DOMAIN callsign_cache' /\ callsign_cache'[k] = callsign_cache[k]]_vars
    /\ [](lastCall.op = "fetch_route_info" =>
            /\ lastCall.callsign \in DOMAIN callsign_cache
            /\ ret = callsign_cache[lastCall.callsign]
            /\ (lastCall.requested /\ ResponseRaises(lastCall.resp) => ret = Sentinel))
    /\ [](CsEmpty \in DOMAIN callsign_cache => callsign_cache[CsEmpty] = Sentinel)

\* C6 witness: the empty callsign and a failed A1 are cached as the sentinel, B2
\* is cached with a route, and a later call for B2 whose request would have
\* failed returned the cached route.
CachedRouteSurvivesLaterFailure ==
    /\ DOMAIN callsign_cache = Callsigns
    /\ callsign_cache[CsEmpty] = Sentinel
    /\ callsign_cache[CsA] = Sentinel
    /\ callsign_cache[CsB] = FullTriple
    /\ lastCall.op = "fetch_route_info"
    /\ lastCall.callsign = CsB
    /\ lastCall.resp = TransportError
    /\ ~lastCall.requested
    /\ ret = FullTriple

\* the name the claim promises for one field of a payload: the name that is
\* present, and "N/A" where the nested object or the name is absent or null
ClaimedName(body, key) ==
    IF ~IsObj(body) \/ "response" \notin DOMAIN body.v THEN NA
    ELSE LET r == body.v["response"] IN
         IF ~IsObj(r) \/ "flightroute" \notin DOMAIN r.v THEN NA
         ELSE LET fr == r.v["flightroute"] IN
              IF ~IsObj(fr) \/ key \notin DOMAIN fr.v THEN NA
              ELSE LET o == fr.v[key] IN
                   IF ~IsObj(o) \/ "name" \notin DOMAIN o.v THEN NA
                   ELSE IF o.v["name"] = Null THEN NA ELSE o.v["name"]

\* C7: when a route-lookup response is received, airline, origin and destination
\* are defaulted independently: a field whose nested object or name is absent or
\* null becomes "N/A" for that field alone, and every field present keeps its value.
FieldsDefaultIndependently ==
    (lastCall.op = "fetch_route_info" /\ lastCall.requested /\ ~ResponseRaises(lastCall.resp))
        => ret = <<ClaimedName(lastCall.resp.body, "airline"),
                   ClaimedName(lastCall.resp.body, "origin"),
                   ClaimedName(lastCall.resp.body, "destination")>>

-----------------------------------------------------------------------------
(* Properties of FlightTrackerApp.run, checked under Spec *)

NumAreas == Len(LOCATIONS)

\* C2: the area index advances exactly once per 300 s elapsed since last_switch:
\* an iteration that starts with now - last_switch >= 300 moves idx to
\* (idx + 1) mod len(LOCATIONS) once and sets last_switch to now, an iteration
\* that starts with less elapsed performs no timed advance, no step but the top
\* of an iteration and the empty-result branch touches idx or last_switch, and
\* idx is always a valid index into LOCATIONS.
TimedRotation ==
    /\ [](idx \in 0..(NumAreas - 1))
    /\ [][pc = "start" =>
            /\ now' = clock
            /\ IF clock - last_switch >= 300
               THEN idx' = (idx + 1) % NumAreas /\ last_switch' = clock
               ELSE idx' = idx /\ last_switch' = last_switch]_vars
    /\ [][pc \notin {"start", "decide"} => idx' = idx /\ last_switch' = last_switch]_vars

\* C2 witness: the third iteration started exactly 300 s after the last switch
\* with idx on the last area, and the timed advance wrapped idx to area 0.
TimedAdvanceWrapped ==
    /\ pc = "enrich"
    /\ posRequests = 3
    /\ now = 310
    /\ last_switch = now
    /\ lastArea = 0
    /\ idx = 0

\* C3: whenever the kept list of an iteration is empty, the iteration advances
\* idx to the area after the one it fetched, whatever time has elapsed since
\* last_switch, sets last_switch to its now, and renders nothing.
EmptyResultSkips ==
    /\ [][pc = "decide" /\ enriched_aircraft = <<>> =>
            /\ idx' = (idx + 1) % NumAreas
            /\ last_switch' = now
            /\ drawCalls' = 0 /\ shown' = <<>>
            /\ pc' = "sleep"]_vars
    /\ [](pc = "sleep" /\ enriched_aircraft = <<>> =>
            /\ idx = (lastArea + 1) % NumAreas
            /\ last_switch = now
            /\ drawCalls = 0 /\ shown = <<>>)

\* C3 witness: three consecutive empty results walked the whole area list and
\* back to area 0 within 20 s of the clock.
WalkedListByEmptyResults ==
    /\ pc = "sleep"
    /\ posRequests = 3
    /\ enriched_aircraft = <<>>
    /\ lastArea = 2
    /\ idx = 0
    /\ now = 20
    /\ last_switch = now
    /\ drawCalls = 0

\* C4: no transport failure, malformed payload or missing or non-numeric field
\* ever propagates out of an iteration of run or terminates the loop.
LoopNeverRaises == pc # "crashed"

\* a fetched record resolves: it has a callsign whose cached airline is not "N/A"
Resolves(ac) ==
    /\ ~CallsignOf(ac).exc
    /\ CallsignOf(ac).val \in DOMAIN callsign_cache
    /\ callsign_cache[CallsignOf(ac).val][1] # NA

\* C8: in every iteration the renderer is invoked exactly when at least one
\* fetched record resolves to an airline other than "N/A", it is invoked at
\* most once, and the record displayed is the first such record in upstream
\* order, with its route.
RendersFirstResolved ==
    /\ drawCalls <= 1
    /\ Len(shown) <= 1
    /\ pc \in {"sleep", "crashed"} =>
        LET items == Items(aircraft)
            resolved == {i \in 1..Len(items) : Resolves(items[i])}
        IN /\ drawCalls = 1 <=> resolved # {}
           /\ resolved # {} =>
                LET first == CHOOSE i \in resolved : \A j \in resolved : i <= j
                    cs == CallsignOf(items[first]).val
                IN /\ Len(shown) = 1
                   /\ shown[1].ac = Update(items[first], callsign_cache[cs])

Count(s, x) == Cardinality({i \in 1..Len(s) : s[i] = x})
Rank(x) == CASE x = "position" -> 0 [] x = "route" -> 1 [] x = "logo" -> 2 [] OTHER -> 3

\* C9: every iteration issues exactly one position fetch, then at most 20 route
\* lookups, then at most one logo request, then sleeps at least 10 s once
\* before the next iteration begins; every position fetch but the first comes
\* right after one sleep.
RequestBudget ==
    /\ [](LET body == IF log # <<>> /\ log[1] = "sleep" THEN Tail(log) ELSE log IN
          /\ pc = "start" => body = <<>> /\ (posRequests > 0 => log = <<"sleep">>)
          /\ pc # "start" => body # <<>> /\ body[1] = "position"
          /\ pc # "start" /\ posRequests > 1 => log[1] = "sleep"
          /\ Count(body, "position") <= 1
          /\ Count(body, "route") <= 20
          /\ Count(body, "logo") <= 1
          /\ \A i, j \in 1..Len(body) : i < j => Rank(body[i]) <= Rank(body[j]) /\ Rank(body[j]) < 3)
    /\ [][pc = "sleep" => pc' = "start" /\ clock' >= clock + 10 /\ log' = <<"sleep">>]_vars
    /\ [][posRequests' # posRequests =>
            /\ posRequests' = posRequests + 1
            /\ posRequests = 0 \/ log = <<"sleep">>]_vars

\* C9 witness: a second iteration, begun after a sleep, fetched 20 records with
\* 20 callsigns and issued 20 route lookups and no logo request.
TwentyLookupsInOneIteration ==
    /\ pc = "sleep"
    /\ posRequests = 2
    /\ Len(Items(aircraft)) = 20
    /\ log = <<"sleep", "position">> \o Repeat("route", 20)
    /\ drawCalls = 1

\* C10: the rotation starves no area: an area index is never stepped over
\* without being fetched, so the areas are fetched in list order, each fetch
\* being of the area fetched last or of the next one.
NoAreaSteppedOver ==
    [][posRequests' = posRequests + 1 =>
         IF lastArea = -1 THEN lastArea' = 0
         ELSE lastArea' \in {lastArea, (lastArea + 1) % NumAreas}]_vars

====
